---- MODULE Spec2Model ----
(***************************************************************************)
(* Model of packages/@aws-cdk/aws-ec2/lib/cfn-init.ts: the registry of     *)
(* configs and config sets (CloudFormationInit), the per-kind binding of   *)
(* an InitConfig, the deepMerge of fragments and the side effects of       *)
(* _attach.                                                                *)
(*                                                                         *)
(* JavaScript values are tagged records of one shape, so that any two of   *)
(* them compare:                                                           *)
(*   t  "undef" | "bool" | "num" | "str" | "arr" | "obj"                   *)
(*   s  the text of a primitive ("false", "0", "", "s", ...)               *)
(*   a  the items of an array, in order                                    *)
(*   o  the own string-keyed properties, in insertion order, as a sequence *)
(*      of [k, v] entries (an object's entries; an array's extra           *)
(*      properties)                                                        *)
(* An object that the code mutates in place is a value held in a variable  *)
(* or in a heap cell; nested objects of a fragment belong to that fragment *)
(* alone (deepMerge never stores a reference to a part of src in target).  *)
(***************************************************************************)
EXTENDS Naturals, Sequences, FiniteSets, TLC

VARIABLES
  configs,     \* CloudFormationInit._configs: entries [name, elements], insertion order
  configSets,  \* CloudFormationInit._configSets: entries [name, members], insertion order
  frags,       \* the fragment objects the elements hold: element -> [config, authentication]
  sameObject,  \* TRUE: an element's _bind returns the object it holds; FALSE: a fresh copy
  last,        \* the last call: [op, name, err]
  metadata,    \* attachedResource metadata: entries [k, v]
  policy,      \* statements added to attachOptions.instanceRole by _attach
  userData,    \* commands added to attachOptions.userData
  rendered,    \* outcomes of the _attach calls since the last builder call
  bindLog,     \* the element _bind calls of the last _attach, in call order
  m            \* a deepMerge call on its own: [pc, a, b, c, tgt, src, ret, err, left, right]

vars == <<configs, configSets, frags, sameObject, last, metadata, policy, userData,
          rendered, bindLog, m>>

regVars == <<configs, configSets, frags, sameObject, last, metadata, policy, userData,
             rendered, bindLog>>

----------------------------------------------------------------------------
(* JavaScript values *)

Undef == [t |-> "undef", s |-> "", a |-> <<>>, o |-> <<>>]

Bool(x) == [t |-> "bool", s |-> x, a |-> <<>>, o |-> <<>>]

Num(x) == [t |-> "num", s |-> x, a |-> <<>>, o |-> <<>>]

Str(x) == [t |-> "str", s |-> x, a |-> <<>>, o |-> <<>>]

Arr(items) == [t |-> "arr", s |-> "", a |-> items, o |-> <<>>]

Obj(entries) == [t |-> "obj", s |-> "", a |-> <<>>, o |-> entries]

KV(key, val) == [k |-> key, v |-> val]

IsNullish(v) == v.t = "undef"

\* ToBoolean: false, 0 and "" are falsy, as is undefined; objects and arrays are truthy
Truthy(v) ==
  CASE v.t = "undef" -> FALSE
    [] v.t = "bool" -> v.s # "false"
    [] v.t = "num" -> v.s # "0"
    [] v.t = "str" -> v.s # ""
    [] OTHER -> TRUE

IsArray(v) == v.t = "arr"

HasKey(v, key) == \E i \in 1..Len(v.o) : v.o[i].k = key

KeyPos(v, key) == CHOOSE i \in 1..Len(v.o) : v.o[i].k = key

\* v[key]: an own property, or undefined (a primitive has none of the model's keys)
Get(v, key) == IF HasKey(v, key) THEN v.o[KeyPos(v, key)].v ELSE Undef

\* v[key] = val on an object or array: an existing key keeps its place, a new one is appended
Set(v, key, val) ==
  IF HasKey(v, key)
    THEN [v EXCEPT !.o = [v.o EXCEPT ![KeyPos(v, key)] = KV(key, val)]]
    ELSE [v EXCEPT !.o = Append(v.o, KV(key, val))]

\* a property cannot be created on a primitive: the assignment throws a TypeError in
\* strict code, which a module is
IsPrimitive(v) == v.t \in {"bool", "num", "str"}

RECURSIVE Dedup(_)
\* Array.from(new Set(items)): the first occurrence of each item, in order
Dedup(items) ==
  IF items = <<>> THEN <<>>
  ELSE LET front == Dedup(SubSeq(items, 1, Len(items) - 1))
           x == items[Len(items)]
       IN IF \E i \in 1..Len(front) : front[i] = x THEN front ELSE Append(front, x)

----------------------------------------------------------------------------
(* deepMerge *)

NoError == ""

MergeTypeConflict == "merge-type-conflict"

TypeError == "TypeError"

RECURSIVE MergeEntries(_, _, _)
\* The for loop of deepMerge over Object.entries(src), from entry i on: the state of
\* the target object when the loop ends or throws, and the error thrown.
MergeEntries(target, entries, i) ==
  IF i > Len(entries) THEN [tgt |-> target, err |-> NoError]
  ELSE
    LET key == entries[i].k
        value == entries[i].v
        tk == Get(target, key)
    IN CASE IsArray(value) ->
              IF Truthy(tk) /\ ~IsArray(tk)
                THEN [tgt |-> target, err |-> MergeTypeConflict]
              ELSE IF tk.t \in {"bool", "num"}
                THEN [tgt |-> target, err |-> TypeError]   \* spread of false or 0
              ELSE IF IsPrimitive(target)
                THEN [tgt |-> target, err |-> TypeError]
              ELSE MergeEntries(Set(target, key, Arr(Dedup(tk.a \o value.a))), entries, i + 1)
         [] value.t = "obj" ->
              LET inner == IF IsNullish(tk) THEN Obj(<<>>) ELSE tk
                  r == MergeEntries(inner, value.o, 1)
              IN IF r.err # NoError
                   THEN [tgt |-> IF tk.t \in {"obj", "arr"} THEN Set(target, key, r.tgt) ELSE target,
                         err |-> r.err]
                 ELSE IF IsPrimitive(target)
                   THEN [tgt |-> target, err |-> TypeError]
                 ELSE MergeEntries(Set(target, key, r.tgt), entries, i + 1)
         [] value.t = "undef" -> MergeEntries(target, entries, i + 1)
         [] OTHER ->
              IF IsPrimitive(target)
                THEN [tgt |-> target, err |-> TypeError]
                ELSE MergeEntries(Set(target, key, value), entries, i + 1)

\* what deepMerge returns once its loop has ended as r
MergeResult(r) ==
  [ret |-> IF r.err = NoError THEN r.tgt ELSE Undef, tgt |-> r.tgt, err |-> r.err]

\* deepMerge(target, src): ret is the value returned (the target object, or src when
\* target is absent), tgt the state of the target object after the call
deepMerge(target, src) ==
  IF IsNullish(target) THEN [ret |-> src, tgt |-> target, err |-> NoError]
  ELSE IF IsNullish(src) THEN [ret |-> target, tgt |-> target, err |-> NoError]
  ELSE MergeResult(MergeEntries(target, src.o, 1))

----------------------------------------------------------------------------
(* Elements: the external InitElement objects. Each has a kind and holds the *)
(* fragments its _bind returns.                                              *)

\* InitElementType, in the order InitConfig._bind binds the kinds
ElementTypes == <<"PACKAGE", "GROUP", "USER", "SOURCE", "FILE", "COMMAND", "SERVICE">>

\* the key of each kind in the config InitConfig._bind returns
ConfigKeys == <<"packages", "groups", "users", "sources", "files", "commands", "services">>

Elements == {"pkgA", "pkgB", "file", "cmd", "svc"}

elementType(e) ==
  CASE e \in {"pkgA", "pkgB"} -> "PACKAGE"
    [] e = "file" -> "FILE"
    [] e = "cmd" -> "COMMAND"
    [] OTHER -> "SERVICE"

\* what each element's _bind returns: { config, authentication? }
ElementFragments(e) ==
  CASE e = "pkgA" -> [config |-> Obj(<<KV("yum", Arr(<<"a">>))>>),
                      authentication |-> Obj(<<KV("creds", Arr(<<"x">>))>>)]
    [] e = "pkgB" -> [config |-> Obj(<<KV("yum", Arr(<<"b">>))>>),
                      authentication |-> Obj(<<KV("creds", Arr(<<"y">>))>>)]
    [] e = "file" -> [config |-> Obj(<<KV("path", Str("s"))>>),
                      authentication |-> Obj(<<KV("creds", Str("s"))>>)]
    [] e = "cmd" -> [config |-> Obj(<<KV("c0", Str("s"))>>),
                     authentication |-> Undef]
    [] OTHER -> [config |-> Obj(<<KV("sysvinit", Obj(<<KV("n", Str("t"))>>))>>),
                 authentication |-> Obj(<<KV("creds", Arr(<<"x">>))>>)]

InitialFrags == [e \in Elements |-> ElementFragments(e)]

----------------------------------------------------------------------------
(* The registry: _configs and _configSets are plain objects ({}), so a      *)
(* lookup by name also finds what Object.prototype defines.                 *)

ObjectPrototypeKeys == {"constructor"}

HasOwn(entries, name) == \E i \in 1..Len(entries) : entries[i].name = name

OwnPos(entries, name) == CHOOSE i \in 1..Len(entries) : entries[i].name = name

\* obj[name] is truthy: an own entry (an InitConfig or an array, always truthy) or an
\* inherited property
LookupTruthy(entries, name) == HasOwn(entries, name) \/ name \in ObjectPrototypeKeys

\* InitConfig.isEmpty
isEmpty(elements) == Len(elements) = 0

----------------------------------------------------------------------------
(* Binding. Fragment objects live in a heap of cells; a reference names a   *)
(* cell. With sameObject an element returns the object it holds, otherwise  *)
(* every _bind call returns an object of its own.                           *)

NullRef == [c |-> 0, i |-> 0, e |-> "", slot |-> "null"]

BindRef(c, i, e, slot) ==
  IF sameObject THEN [c |-> 0, i |-> 0, e |-> e, slot |-> slot]
                ELSE [c |-> c, i |-> i, e |-> e, slot |-> slot]

Slots == {"config", "authentication"}

\* the cells of one _attach call, each holding what the element's _bind returns
AttachHeap ==
  LET refs == UNION { {BindRef(c, i, configs[c].elements[i], sl) :
                         i \in 1..Len(configs[c].elements), sl \in Slots} :
                      c \in 1..Len(configs) }
  IN [r \in refs |-> frags[r.e][r.slot]]

\* a reference that is null or undefined as a value
IsNull(st, r) == r = NullRef \/ IsNullish(st.heap[r])

Deref(st, r) == IF r = NullRef THEN Undef ELSE st.heap[r]

\* one step of the fold: deepMerge(acc, r) has left the accumulator's object as res.tgt
FoldStep(st, acc, res) == [st EXCEPT !.heap[acc] = res.tgt, !.err = res.err]

RECURSIVE FoldFrom(_, _, _, _)
\* refs.reduce(deepMerge, undefined) from position i on, acc being the accumulator:
\* the first fragment that is not absent becomes the accumulator and every later one
\* is merged into it, in place
FoldFrom(refs, i, acc, st) ==
  IF st.err # NoError \/ i > Len(refs) THEN [acc |-> acc, st |-> st]
  ELSE IF IsNull(st, acc)
    THEN FoldFrom(refs, i + 1, IF IsNull(st, refs[i]) THEN acc ELSE refs[i], st)
  ELSE IF IsNull(st, refs[i]) THEN FoldFrom(refs, i + 1, acc, st)
  ELSE FoldFrom(refs, i + 1, acc,
                FoldStep(st, acc, deepMerge(st.heap[acc], st.heap[refs[i]])))

Fold(refs, st) == FoldFrom(refs, 1, NullRef, st)

RECURSIVE PositionsOfType(_, _, _)
\* this.elements.filter(elem => elem.elementType === elementType), as the positions
\* in elements of the elements kept, in insertion order
PositionsOfType(elements, type, i) ==
  IF i > Len(elements) THEN <<>>
  ELSE (IF elementType(elements[i]) = type THEN <<i>> ELSE <<>>)
         \o PositionsOfType(elements, type, i + 1)

\* the index bindForType hands to the j-th element of a kind
BindIndex(j) == j - 1

\* elements.map((e, index) => e._bind({ index, ...renderOptions })): the calls made
BindCalls(c, type, pos) ==
  [j \in 1..Len(pos) |->
     [config |-> configs[c].name, type |-> type, index |-> BindIndex(j),
      element |-> configs[c].elements[pos[j]], position |-> pos[j]]]

\* bindResults.map(r => r.config) or bindResults.map(r => r.authentication)
BindResults(c, pos, slot) ==
  [j \in 1..Len(pos) |-> BindRef(c, pos[j], configs[c].elements[pos[j]], slot)]

TypeResult(config, auth) ==
  [defined |-> TRUE, config |-> config, authentication |-> auth.acc, st |-> auth.st]

\* the authentication fold of bindForType, after the config fold cfg
TypeAuthentication(c, pos, cfg) ==
  TypeResult(cfg.acc, Fold(BindResults(c, pos, "authentication"), cfg.st))

\* bindForType on the elements at pos: every element of the kind is bound with its
\* index among them, then the configs are folded, then the authentications
BindPositions(c, type, pos, st) ==
  IF Len(pos) = 0
    THEN [defined |-> FALSE, config |-> NullRef, authentication |-> NullRef, st |-> st]
    ELSE TypeAuthentication(c, pos,
           Fold(BindResults(c, pos, "config"),
                [st EXCEPT !.log = st.log \o BindCalls(c, type, pos)]))

\* InitConfig.bindForType for the config at catalog position c
bindForType(c, type, st) ==
  BindPositions(c, type, PositionsOfType(configs[c].elements, type, 1), st)

\* the services bound before the files and the commands
BindOrderServicesEarly ==
  <<"PACKAGE", "GROUP", "USER", "SOURCE", "SERVICE", "FILE", "COMMAND">>

\* the order in which InitConfig._bind binds the kinds
BindOrder == ElementTypes

RECURSIVE BindTypes(_, _, _, _)
RECURSIVE NextType(_, _, _, _)
\* the seven bindForType calls of InitConfig._bind, from the k-th on
BindTypes(c, k, results, st) ==
  IF st.err # NoError \/ k > Len(BindOrder) THEN [results |-> results, st |-> st]
  ELSE NextType(c, k, results, bindForType(c, BindOrder[k], st))

NextType(c, k, results, r) ==
  BindTypes(c, k + 1,
            Append(results, [type |-> BindOrder[k], defined |-> r.defined,
                             config |-> r.config, authentication |-> r.authentication]),
            r.st)

ConfigResult(c, results, auth) ==
  [name |-> configs[c].name, config |-> results, authentication |-> auth.acc, st |-> auth.st]

\* the authentication fold of InitConfig._bind over the kinds' results
ConfigAuthentication(c, kinds) ==
  ConfigResult(c, kinds.results,
               Fold([k \in 1..Len(kinds.results) |-> kinds.results[k].authentication],
                    kinds.st))

\* InitConfig._bind: config lists the kinds' results, authentication is their fold
InitConfig_bind(c, st) == ConfigAuthentication(c, BindTypes(c, 1, <<>>, st))

RECURSIVE BindConfigs(_, _, _)
RECURSIVE NextConfig(_, _, _)
\* mapValues(nonEmptyConfigs, c => c._bind(scope, options)), from catalog position c on
BindConfigs(c, results, st) ==
  IF st.err # NoError \/ c > Len(configs) THEN [results |-> results, st |-> st]
  ELSE IF isEmpty(configs[c].elements) THEN BindConfigs(c + 1, results, st)
  ELSE NextConfig(c, results, InitConfig_bind(c, st))

NextConfig(c, results, r) ==
  BindConfigs(c + 1,
              Append(results, [name |-> r.name, config |-> r.config,
                               authentication |-> r.authentication]),
              r.st)

RECURSIVE Json(_)
\* what JSON.stringify keeps of a value: an array's items, an object's defined entries
Json(v) ==
  CASE v.t = "arr" -> Arr(v.a)
    [] v.t = "obj" ->
         LET kept == SelectSeq(v.o, LAMBDA en : en.v.t # "undef")
         IN Obj([i \in 1..Len(kept) |-> KV(kept[i].k, Json(kept[i].v))])
    [] OTHER -> v

\* the kinds of one InitConfig._bind result that bound something
DefinedTypes(result) == SelectSeq(result.config, LAMBDA r : r.defined)

\* the key of a kind in the config of InitConfig._bind
ConfigKey(type) == ConfigKeys[CHOOSE k \in 1..Len(ElementTypes) : ElementTypes[k] = type]

ConfigEntries(kinds, st) ==
  [j \in 1..Len(kinds) |->
     KV(ConfigKey(kinds[j].type),
        IF kinds[j].config = NullRef THEN Obj(<<>>) ELSE st.heap[kinds[j].config])]

\* the config object of one InitConfig._bind result, with the fragments it refers to
ConfigObject(result, st) == Obj(ConfigEntries(DefinedTypes(result), st))

\* nonEmptyConfigs[name] !== undefined, nonEmptyConfigs being a plain object
IsNonEmptyConfig(name) ==
  \/ /\ HasOwn(configs, name)
     /\ ~isEmpty(configs[OwnPos(configs, name)].elements)
  \/ name \in ObjectPrototypeKeys

\* configNames.filter(name => nonEmptyConfigs[name] !== undefined)
FilterMembers(members) == SelectSeq(members, IsNonEmptyConfig)

\* mapValues(this._configSets, ...)
ConfigSetsObject ==
  Obj([i \in 1..Len(configSets) |->
         KV(configSets[i].name, Arr(FilterMembers(configSets[i].members)))])

RECURSIVE SpreadConfigs(_, _, _, _)
\* { configSets: ..., ...mapValues(configNameToBindResult, c => c.config) }: a config
\* named like a key already written takes that key's place
SpreadConfigs(doc, results, j, st) ==
  IF j > Len(results) THEN doc
  ELSE SpreadConfigs(Set(doc, results[j].name, ConfigObject(results[j], st)), results, j + 1, st)

\* configData: the config sets first, then the configs
ConfigData(results, st) ==
  SpreadConfigs(Obj(<<KV("configSets", ConfigSetsObject)>>), results, 1, st)

\* what bind returns, as _attach serialises it, with the heap after the merges and
\* the element _bind calls made
BindResult(results, auth) ==
  [err |-> auth.st.err,
   configData |-> IF auth.st.err # NoError THEN Undef ELSE Json(ConfigData(results, auth.st)),
   authData |-> IF auth.st.err # NoError THEN Undef ELSE Json(Deref(auth.st, auth.acc)),
   heap |-> auth.st.heap,
   log |-> auth.st.log]

\* authData: the fold of the configs' authentications
BindAuthentication(bound) ==
  BindResult(bound.results,
             Fold([j \in 1..Len(bound.results) |-> bound.results[j].authentication],
                  bound.st))

\* CloudFormationInit.bind
bind ==
  BindAuthentication(BindConfigs(1, <<>>, [heap |-> AttachHeap, log |-> <<>>, err |-> NoError]))

----------------------------------------------------------------------------
(* The operations of CloudFormationInit and InitConfig *)

DuplicateConfig == "duplicate-config"

DuplicateConfigSet == "duplicate-configSet"

UnknownConfigs == "unknown-configs"

Call(op, name, arg, err) == [op |-> op, name |-> name, arg |-> arg, err |-> err]

\* no deepMerge call of its own is under way
Idle == [pc |-> "idle", a |-> Undef, b |-> Undef, c |-> Undef, tgt |-> Undef, src |-> Undef,
         ret |-> Undef, err |-> NoError, left |-> <<>>, right |-> <<>>]

MergeIdle == m = Idle

\* CloudFormationInit.fromConfigSets(props) and the private constructor: both records
\* are copied as given
fromConfigSets(props) ==
  /\ configSets = props.configSets
  /\ configs = props.configs
  /\ frags = InitialFrags
  /\ last = Call("fromConfigSets", "", <<>>, NoError)
  /\ metadata = <<>>
  /\ policy = <<>>
  /\ userData = <<>>
  /\ rendered = <<>>
  /\ bindLog = <<>>
  /\ MergeIdle

\* CloudFormationInit.fromConfig(config): one config, "config", in one set, "default"
fromConfig(elements) ==
  fromConfigSets([configSets |-> <<[name |-> "default", members |-> <<"config">>]>>,
                  configs |-> <<[name |-> "config", elements |-> elements]>>])

\* CloudFormationInit.fromElements(...elements)
fromElements(elements) == fromConfig(elements)

\* addConfig without the check of the name: the config is stored over the one there
addConfigOverwriting(configName, elements) ==
  /\ last' = Call("addConfig", configName, <<>>, NoError)
  /\ configs' = IF HasOwn(configs, configName)
                  THEN [configs EXCEPT ![OwnPos(configs, configName)].elements = elements]
                  ELSE Append(configs, [name |-> configName, elements |-> elements])
  /\ rendered' = <<>>
  /\ UNCHANGED <<configSets, frags, sameObject, metadata, policy, userData, bindLog, m>>

\* addConfig(configName, config), config holding the given elements
addConfig(configName, elements) ==
  /\ IF LookupTruthy(configs, configName)
       THEN /\ last' = Call("addConfig", configName, <<>>, DuplicateConfig)
            /\ UNCHANGED configs
       ELSE /\ last' = Call("addConfig", configName, <<>>, NoError)
            /\ configs' = Append(configs, [name |-> configName, elements |-> elements])
  /\ rendered' = <<>>
  /\ UNCHANGED <<configSets, frags, sameObject, metadata, policy, userData, bindLog, m>>

\* addConfigSet(configSetName, configNames)
addConfigSet(configSetName, configNames) ==
  /\ IF LookupTruthy(configSets, configSetName)
       THEN /\ last' = Call("addConfigSet", configSetName, configNames, DuplicateConfigSet)
            /\ UNCHANGED configSets
       ELSE IF Len(SelectSeq(configNames, LAMBDA c : ~LookupTruthy(configs, c))) > 0
       THEN /\ last' = Call("addConfigSet", configSetName, configNames, UnknownConfigs)
            /\ UNCHANGED configSets
       ELSE /\ last' = Call("addConfigSet", configSetName, configNames, NoError)
            /\ configSets' = Append(configSets,
                                    [name |-> configSetName, members |-> configNames])
  /\ rendered' = <<>>
  /\ UNCHANGED <<configs, frags, sameObject, metadata, policy, userData, bindLog, m>>

\* InitConfig.add(element) on the config registered under configName
add(configName, element) ==
  /\ HasOwn(configs, configName)
  /\ configs' = [configs EXCEPT ![OwnPos(configs, configName)].elements = Append(@, element)]
  /\ last' = Call("add", configName, <<>>, NoError)
  /\ rendered' = <<>>
  /\ UNCHANGED <<configSets, frags, sameObject, metadata, policy, userData, bindLog, m>>

\* attachOptions: platform, configSets (absent: <<"undefined">>), printLog,
\* embedFingerprint, ignoreFailures
AttachOptions ==
  { [platform |-> "LINUX", configSets |-> <<"undefined">>, printLog |-> TRUE,
     embedFingerprint |-> TRUE, ignoreFailures |-> FALSE],
    [platform |-> "WINDOWS", configSets |-> <<"default">>, printLog |-> FALSE,
     embedFingerprint |-> FALSE, ignoreFailures |-> TRUE] }

\* the commands _attach adds to the user data; the fingerprint is the hash of the
\* serialised configData, kept here as the text that is hashed
Commands(options, configData) ==
  LET sets == IF options.configSets = <<"undefined">> THEN <<"default">>
              ELSE options.configSets
      fingerprint == IF options.embedFingerprint
                       THEN <<[cmd |-> "# fingerprint", arg |-> <<configData>>]>> ELSE <<>>
  IN fingerprint \o
     (IF options.platform = "WINDOWS"
        THEN <<[cmd |-> "cfn-init.exe", arg |-> sets],
               [cmd |-> "cfn-signal.exe",
                arg |-> <<IF options.ignoreFailures THEN "0" ELSE "$LASTEXITCODE">>]>>
             \o (IF options.printLog THEN <<[cmd |-> "type", arg |-> <<>>]>> ELSE <<>>)
        ELSE <<[cmd |-> "(", arg |-> <<>>], [cmd |-> "set +e", arg |-> <<>>],
               [cmd |-> "cfn-init", arg |-> sets],
               [cmd |-> "cfn-signal", arg |-> <<IF options.ignoreFailures THEN "0" ELSE "$?">>]>>
             \o (IF options.printLog THEN <<[cmd |-> "cat", arg |-> <<>>]>> ELSE <<>>)
             \o <<[cmd |-> ")", arg |-> <<>>]>>)

\* what the elements hold after an _attach whose merges left the heap as given
FragsAfter(heap) ==
  IF sameObject
    THEN [e \in Elements |->
            [sl \in Slots |->
               IF BindRef(0, 0, e, sl) \in DOMAIN heap THEN heap[BindRef(0, 0, e, sl)]
               ELSE frags[e][sl]]]
    ELSE frags

\* the metadata _attach adds: the Init document, and the Authentication one if any
Metadata(b) ==
  <<KV("AWS::CloudFormation::Init", b.configData)>>
    \o (IF b.authData.t # "undef"
          THEN <<KV("AWS::CloudFormation::Authentication", b.authData)>> ELSE <<>>)

PolicyStatement == "cloudformation:DescribeStackResource,cloudformation:SignalResource"

\* _attach adding the Init metadata and the policy statement before it looks at the
\* outcome of bind
attachedEarly(options, b) ==
  /\ bindLog' = b.log
  /\ frags' = FragsAfter(b.heap)
  /\ rendered' = Append(rendered, [err |-> b.err, configData |-> b.configData,
                                   authData |-> b.authData, options |-> options])
  /\ last' = Call("_attach", "", <<>>, b.err)
  /\ metadata' = metadata \o Metadata(b)
  /\ policy' = Append(policy, PolicyStatement)
  /\ IF b.err = NoError
       THEN userData' = userData \o Commands(options, b.configData)
       ELSE UNCHANGED userData
  /\ UNCHANGED <<configs, configSets, sameObject, m>>

\* _attach once this.bind has returned or thrown as b: bind is the first statement of
\* _attach, and an error it throws ends the call before any side effect
attached(options, b) ==
  /\ bindLog' = b.log
  /\ frags' = FragsAfter(b.heap)
  /\ rendered' = Append(rendered, [err |-> b.err, configData |-> b.configData,
                                   authData |-> b.authData, options |-> options])
  /\ last' = Call("_attach", "", <<>>, b.err)
  /\ IF b.err = NoError
       THEN /\ metadata' = metadata \o Metadata(b)
            /\ policy' = Append(policy, PolicyStatement)
            /\ userData' = userData \o Commands(options, b.configData)
       ELSE UNCHANGED <<metadata, policy, userData>>
  /\ UNCHANGED <<configs, configSets, sameObject, m>>

\* CloudFormationInit._attach(attachedResource, attachOptions)
attach(options) == attached(options, bind)

----------------------------------------------------------------------------
(* The registry under its builder calls *)

MaxConfigs == 2

MaxConfigSets == 1

MaxElements == 1

ConfigNames == {"config", "configSets"}

ConfigSetNames == {"default", "extra"}

\* the element lists a registered InitConfig is built from
NewConfigs == {<<>>, <<"pkgA">>}

\* the member lists of a config set
MemberLists ==
  {<<>>, <<"config", "configSets">>} \cup {<<n>> : n \in ConfigNames \cup ObjectPrototypeKeys}

\* the props given to fromConfigSets: at most one config and one config set, unchecked
InitProps ==
  { [configSets |-> cs, configs |-> cf] :
      cs \in {<<>>} \cup {<<[name |-> "default", members |-> ms]>> : ms \in MemberLists},
      cf \in {<<>>} \cup {<<[name |-> n, elements |-> els]>> :
                            n \in ConfigNames, els \in NewConfigs} }

\* the elements registered here return fresh fragments from every _bind
Init ==
  /\ sameObject = FALSE
  /\ \E props \in InitProps : fromConfigSets(props)

\* the registry is built, then attached
NotAttached == MergeIdle /\ metadata = <<>>

AddConfig ==
  \E n \in ConfigNames \cup ObjectPrototypeKeys, els \in NewConfigs :
    /\ NotAttached
    /\ LookupTruthy(configs, n) \/ Len(configs) < MaxConfigs
    /\ addConfig(n, els)

AddConfigSet ==
  \E n \in ConfigSetNames, ms \in MemberLists :
    /\ NotAttached
    /\ LookupTruthy(configSets, n) \/ Len(configSets) < MaxConfigSets
    /\ addConfigSet(n, ms)

AddElement ==
  \E n \in ConfigNames :
    /\ NotAttached
    /\ HasOwn(configs, n)
    /\ Len(configs[OwnPos(configs, n)].elements) < MaxElements
    /\ add(n, "pkgA")

\* one attach to a resource that has no metadata yet
Attach ==
  \E options \in AttachOptions :
    /\ MergeIdle
    /\ rendered = <<>>
    /\ policy = <<>>
    /\ attach(options)

Next == AddConfig \/ AddConfigSet \/ AddElement \/ Attach

Spec == Init /\ [][Next]_vars

----------------------------------------------------------------------------
(* One config built by fromElements, extended and attached *)

MaxBindElements == 3

MaxAttaches == 2

InitBind ==
  /\ sameObject \in BOOLEAN
  /\ \E elements \in {<<>>} \cup {<<e>> : e \in Elements} : fromElements(elements)

BindAdd ==
  \E e \in Elements :
    /\ MergeIdle
    /\ Len(configs[1].elements) < MaxBindElements
    /\ add("config", e)

\* the options of the attaches of one resource
DefaultOptions == {o \in AttachOptions : o.platform = "LINUX"}

BindAttach ==
  \E options \in DefaultOptions :
    /\ MergeIdle
    /\ Len(rendered) < MaxAttaches
    /\ Len(policy) < MaxAttaches
    /\ attach(options)

NextBind == BindAdd \/ BindAttach

SpecBind == InitBind /\ [][NextBind]_vars

----------------------------------------------------------------------------
(* deepMerge called on its own *)

\* the values a key holds in the fragments tried
MergeValues ==
  { Arr(<<"a">>), Arr(<<"b", "a">>), Str("s"), Str(""), Bool("false"), Num("0"),
    Obj(<<>>), Obj(<<KV("n", Arr(<<"a">>))>>), Obj(<<KV("n", Str("t"))>>) }

\* the optional fragments tried: absent, {}, {k: v}, and one of two keys
MergeFragments ==
  { Undef, Obj(<<>>), Obj(<<KV("k", Arr(<<"a">>)), KV("j", Str("s"))>>) }
    \cup { Obj(<<KV("k", v)>>) : v \in MergeValues }

\* the outcome of two deepMerge calls in a row, as [err, ret]
Outcome(r) == [err |-> r.err, ret |-> r.ret]

\* deepMerge(deepMerge(a, b), c)
MergeLeft(a, b, c) ==
  LET r1 == deepMerge(a, b)
  IN IF r1.err # NoError THEN Outcome(r1) ELSE Outcome(deepMerge(r1.ret, c))

\* deepMerge(a, deepMerge(b, c))
MergeRight(a, b, c) ==
  LET r1 == deepMerge(b, c)
  IN IF r1.err # NoError THEN Outcome(r1) ELSE Outcome(deepMerge(a, r1.ret))

RegIdle ==
  /\ configs = <<>>
  /\ configSets = <<>>
  /\ frags = <<>>
  /\ sameObject = FALSE
  /\ last = Call("none", "", <<>>, NoError)
  /\ metadata = <<>>
  /\ policy = <<>>
  /\ userData = <<>>
  /\ rendered = <<>>
  /\ bindLog = <<>>

InitMerge ==
  /\ RegIdle
  /\ \E a \in MergeFragments, b \in MergeFragments, c \in MergeFragments :
       m = [Idle EXCEPT !.pc = "start", !.a = a, !.b = b, !.c = c, !.tgt = a, !.src = b]

\* one call deepMerge(a, b): tgt and src are the two argument objects after the call
CallMerge ==
  /\ m.pc = "start"
  /\ LET r == deepMerge(m.tgt, m.src)
     IN m' = [m EXCEPT !.pc = "merged", !.tgt = r.tgt, !.ret = r.ret, !.err = r.err]
  /\ UNCHANGED regVars

\* the two groupings of a fold of three fragments, each on its own copies
CallBoth ==
  /\ m.pc = "start"
  /\ m' = [m EXCEPT !.pc = "both", !.left = <<MergeLeft(m.a, m.b, m.c)>>,
                    !.right = <<MergeRight(m.a, m.b, m.c)>>]
  /\ UNCHANGED regVars

NextMerge == CallMerge \/ CallBoth

SpecMerge == InitMerge /\ [][NextMerge]_vars

----------------------------------------------------------------------------
(* Properties *)

\* the last _attach, when it returned
AttachReturned == rendered # <<>> /\ rendered[Len(rendered)].err = NoError

Document == rendered[Len(rendered)].configData

IsEmptyConfig(name) ==
  HasOwn(configs, name) /\ isEmpty(configs[OwnPos(configs, name)].elements)

\* C1: the document rendered by attach has an entry for a config name if and only if
\* that config has at least one element, and every rendered config set lists its
\* declared members with exactly the empty configs removed, in declared order.
C1_RenderedConfigsAndSets ==
  AttachReturned =>
    /\ \A name \in (ConfigNames \cup ObjectPrototypeKeys) \ {"configSets"} :
         HasKey(Document, name) <=> (HasOwn(configs, name) /\ ~IsEmptyConfig(name))
    /\ Get(Document, "configSets") =
         Obj([i \in 1..Len(configSets) |->
                KV(configSets[i].name,
                   Arr(SelectSeq(configSets[i].members, LAMBDA n : ~IsEmptyConfig(n))))])

\* C2: addConfig with a name that is a key of the catalog raises the duplicate-name
\* error and changes neither the catalog nor the config sets.
C2_DuplicateConfigRejected ==
  [][(last'.op = "addConfig" /\ HasOwn(configs, last'.name))
       => (last'.err = DuplicateConfig /\ configs' = configs /\ configSets' = configSets)]_vars

C2_Witness ==
  /\ last.op = "addConfig"
  /\ last.err = DuplicateConfig
  /\ HasOwn(configs, last.name)
  /\ Len(configs) = 2

\* C3: every config name in a config set's member list is a key of the catalog, and
\* an addConfigSet that names an unknown config raises an error.
C3_MembersAreRegistered ==
  /\ \A i \in 1..Len(configSets) : \A j \in 1..Len(configSets[i].members) :
       HasOwn(configs, configSets[i].members[j])
  /\ (last.op = "addConfigSet" /\ \E j \in 1..Len(last.arg) : ~HasOwn(configs, last.arg[j]))
       => last.err # NoError

TypeRank(type) == CHOOSE k \in 1..Len(ElementTypes) : ElementTypes[k] = type

\* C4: the element _bind calls of a config come grouped by kind in the order package,
\* group, user, source, file, command, service (no service before an element of
\* another kind), in insertion order within a kind, each with the index of its
\* zero-based position among the config's elements of its kind.
C4_BindOrderAndIndex ==
  \A j \in 1..Len(bindLog) :
    /\ elementType(bindLog[j].element) = bindLog[j].type
    /\ bindLog[j].index =
         Cardinality({i \in 1..(j - 1) : /\ bindLog[i].config = bindLog[j].config
                                         /\ bindLog[i].type = bindLog[j].type})
    /\ \A i \in 1..(j - 1) :
         bindLog[i].config = bindLog[j].config =>
           /\ TypeRank(bindLog[i].type) <= TypeRank(bindLog[j].type)
           /\ bindLog[i].type = "SERVICE" => bindLog[j].type = "SERVICE"
           /\ bindLog[i].type = bindLog[j].type => bindLog[i].position < bindLog[j].position

\* a service added first and bound last, after a file and a command
C4_Witness ==
  /\ Len(bindLog) = 3
  /\ configs[1].elements = <<"svc", "cmd", "file">>
  /\ bindLog[1].element = "file"
  /\ bindLog[2].element = "cmd"
  /\ bindLog[3].element = "svc"

\* C5: an _attach whose bind raises an error writes no metadata, adds no statement to
\* the role's policy and adds no command to the user data.
C5_AttachAllOrNothing ==
  [][(last'.op = "_attach" /\ last'.err # NoError)
       => (metadata' = metadata /\ policy' = policy /\ userData' = userData)]_vars

\* an _attach that failed on a merge conflict after elements were bound
C5_Witness ==
  /\ last.op = "_attach"
  /\ last.err = MergeTypeConflict
  /\ bindLog # <<>>
  /\ metadata = <<>>
  /\ userData = <<>>

\* C6: when source[k] is an array and target holds at k a value that is not an array
\* (an object or a scalar, false, 0 and "" included), deepMerge raises an error.
C6_ArrayIntoNonArrayRaises ==
  (m.pc = "merged" /\ m.a.t = "obj" /\ m.b.t = "obj") =>
    \A i \in 1..Len(m.b.o) :
      (IsArray(m.b.o[i].v) /\ HasKey(m.a, m.b.o[i].k) /\ ~IsArray(Get(m.a, m.b.o[i].k)))
        => m.err # NoError

\* C7: two _attach calls with the same options and no builder call between them have
\* the same outcome: the same configData and authData.
C7_AttachRepeatable ==
  \A i \in 1..Len(rendered) : \A j \in 1..Len(rendered) :
    rendered[i].options = rendered[j].options => rendered[i] = rendered[j]

RECURSIVE Canon(_)
\* a document with its arrays as sets and its objects as sets of entries
Canon(v) ==
  CASE v.t = "arr" -> [t |-> "arr", s |-> "", a |-> {v.a[i] : i \in 1..Len(v.a)}, o |-> {}]
    [] v.t = "obj" -> [t |-> "obj", s |-> "", a |-> {},
                       o |-> {[k |-> v.o[i].k, v |-> Canon(v.o[i].v)] : i \in 1..Len(v.o)}]
    [] OTHER -> [t |-> v.t, s |-> v.s, a |-> {}, o |-> {}]

\* C8: deepMerge(deepMerge(A, B), C) and deepMerge(A, deepMerge(B, C)) both raise an
\* error or both return documents that are equal with arrays compared as sets.
C8_MergeAssociative ==
  m.pc = "both" =>
    \/ m.left[1].err # NoError /\ m.right[1].err # NoError
    \/ /\ m.left[1].err = NoError
       /\ m.right[1].err = NoError
       /\ Canon(m.left[1].ret) = Canon(m.right[1].ret)

\* C9: a call deepMerge(target, source) leaves both argument documents unchanged.
C9_MergeLeavesArguments ==
  m.pc = "merged" => (m.tgt = m.a /\ m.src = m.b)

\* C10: the configSets slot of the rendered document is the mapping from each
\* registered config set to its filtered member list, whatever the configs are named.
C10_ConfigSetsSlot ==
  AttachReturned => Get(Document, "configSets") = Json(ConfigSetsObject)

====
